---- MODULE Spec2Model ----
(***************************************************************************)
(* Model of ebcpdf2epub.py: the CSV metadata loader                        *)
(* (load_metadata_from_csv) and the batch conversion driver (main).        *)
(*                                                                         *)
(* Python values are modelled as follows.                                  *)
(*   str    a sequence of one-character strings, <<"E","N">> for "EN"      *)
(*   None   the value None below, which is no sequence of characters       *)
(*   dict   a function from keys to values; {} is EmptyDict                *)
(*   Path   a sequence of path components, each a str                      *)
(* The names of a CSV row's fields are kept as TLA+ strings: they are only *)
(* ever compared with each other.                                          *)
(***************************************************************************)
EXTENDS Integers, Sequences, FiniteSets, TLC

VARIABLES
    pc,          \* "open" | "rows" | "main" | "raised" | "completed"
    header,      \* the CSV file's header line, DictReader's fieldnames
    rows,        \* the CSV lines the reader has consumed so far, in order
    metadata,    \* load_metadata_from_csv's dict / main's metadata_dict
    loadError,   \* TRUE once the loader's except clause has run
    args,        \* the parsed command line
    queue,       \* pdf2md.add_pdfs_to_queue(input_path)
    jobs,        \* one record per loop iteration begun, in order
    calls,       \* the invocations of the two conversion stages, in order
    callsFlip    \* the invocations of the same run with --skip-epub flipped

vars == <<pc, header, rows, metadata, loadError, args, queue, jobs, calls, callsFlip>>

----------------------------------------------------------------------------
(* Bounds of the model *)

MaxRows == 2
MaxQueue == 2

----------------------------------------------------------------------------
(* Python values *)

None == <<"<None>">>
NoneKey == "<None>"
EmptyDict == << >>

UpperAlpha == <<"A","B","C","D","E","F","G","H","I","J","K","L","M",
                "N","O","P","Q","R","S","T","U","V","W","X","Y","Z">>
LowerAlpha == <<"a","b","c","d","e","f","g","h","i","j","k","l","m",
                "n","o","p","q","r","s","t","u","v","w","x","y","z">>

LowerChar(c) ==
    IF \E k \in 1..Len(UpperAlpha) : UpperAlpha[k] = c
    THEN LowerAlpha[CHOOSE k \in 1..Len(UpperAlpha) : UpperAlpha[k] = c]
    ELSE c

\* str.lower()
Lower(s) == [k \in 1..Len(s) |-> LowerChar(s[k])]

\* A dict's keys.
Keys(d) == DOMAIN d

\* Python truthiness of a dict: `not d` holds of the empty dict only.
IsFalsy(d) == Keys(d) = {}

\* d[key] = value
DictSet(d, key, value) ==
    [x \in Keys(d) \cup {key} |-> IF x = key THEN value ELSE d[x]]

\* d.get(key, {})
DictGet(d, key) == IF key \in Keys(d) THEN d[key] ELSE EmptyDict

----------------------------------------------------------------------------
(* The CSV catalog: csv.DictReader *)

FullHeader == <<"Document ID", "Title", "Authors", "Language Code",
                "Publisher", "PublicationDate", "EIsbn">>
\* The header the loader's docstring describes: it has no "Document ID".
DocstringHeader == <<"id", "title", "authors", "language", "publisher",
                     "publication_date">>
\* A catalog exported without its last column.
NoIsbnHeader == <<"Document ID", "Title", "Authors", "Language Code",
                  "Publisher", "PublicationDate">>
Headers == {FullHeader, DocstringHeader, NoIsbnHeader}

doc1 == <<"d","1">>
doc2 == <<"d","2">>

\* The lines a catalog may hold after its header: full lines, a line cut
\* short after its title (of the same ID as a full one), and an empty line.
RowPool == {
    <<doc1, <<"T","1">>, <<"A","1">>, <<"E","N">>, <<"P">>, <<"2","0">>, <<"1","1">> >>,
    <<doc2, <<"T","2">>, <<"A","2">>, <<"D","e">>, <<"Q">>, <<"2","1">>, <<"2","2">> >>,
    <<doc2, <<"T","2">> >>,
    << >>
}

\* The last position of name in fieldnames: dict(zip(...)) keeps the last.
LastIndex(fieldnames, name) ==
    CHOOSE k \in 1..Len(fieldnames) :
        /\ fieldnames[k] = name
        /\ \A j \in (k+1)..Len(fieldnames) : fieldnames[j] # name

\* The dict DictReader.__next__ builds of one non-empty line: the cells by
\* field name, None (restval) for the fields a short line lacks, and the
\* surplus cells of a long line as a list under the key None (restkey).
DictRow(fieldnames, cells) ==
    LET names == {fieldnames[k] : k \in 1..Len(fieldnames)}
        extra == IF Len(cells) > Len(fieldnames) THEN {NoneKey} ELSE {}
    IN  [f \in names \cup extra |->
            IF f = NoneKey /\ f \notin names
            THEN SubSeq(cells, Len(fieldnames) + 1, Len(cells))
            ELSE IF LastIndex(fieldnames, f) <= Len(cells)
                 THEN cells[LastIndex(fieldnames, f)]
                 ELSE None]

\* DictReader skips the lines that hold no cell at all.
IsYielded(cells) == cells # << >>

\* if 'Document ID' in row
HasDocumentId(row) == "Document ID" \in Keys(row)

\* Mutant of StoreRow: the key is popped out of the row that is stored.
StoreRow_PopsKey(md, row) ==
    IF HasDocumentId(row)
    THEN DictSet(md, row["Document ID"],
                 [f \in Keys(row) \ {"Document ID"} |-> row[f]])
    ELSE md

\* The loop body of load_metadata_from_csv on one yielded row.
StoreRow(md, row) ==
    IF HasDocumentId(row) THEN DictSet(md, row["Document ID"], row) ELSE md

\* The loader's effect on one consumed line.
LoadLine(md, fieldnames, cells) ==
    IF IsYielded(cells) THEN StoreRow(md, DictRow(fieldnames, cells)) ELSE md

----------------------------------------------------------------------------
(* Paths: pathlib.Path *)

\* The position of the last "." of name, 0 when it has none (str.rfind + 1).
LastDot(name) ==
    IF \E k \in 1..Len(name) : name[k] = "."
    THEN CHOOSE k \in 1..Len(name) :
            /\ name[k] = "."
            /\ \A j \in (k+1)..Len(name) : name[j] # "."
    ELSE 0

\* PurePath.stem of a file name: the name without its last suffix; a leading
\* or a trailing dot starts no suffix.
Stem(name) ==
    IF 1 < LastDot(name) /\ LastDot(name) < Len(name)
    THEN SubSeq(name, 1, LastDot(name) - 1)
    ELSE name

PathName(p) == p[Len(p)]
Parent(p) == SubSeq(p, 1, Len(p) - 1)
PathJoin(p, s) == Append(p, s)

RECURSIVE PathStr(_)
\* str(path): the components joined by "/".
PathStr(p) ==
    IF Len(p) = 0 THEN << >>
    ELSE IF Len(p) = 1 THEN p[1]
    ELSE PathStr(Parent(p)) \o <<"/">> \o p[Len(p)]

\* pdf2md.get_default_output_dir(pdf_path): a directory named after the PDF,
\* beside it.
DefaultOutputDir(pdf_path) == PathJoin(Parent(pdf_path), Stem(PathName(pdf_path)))

----------------------------------------------------------------------------
(* The command line and the queue *)

DefaultBatchMultiplier == 2

InputDir == <<"i","n">>
OutDir == <<"o","u","t">>

PdfNames == {
    <<"d","1",".","p","d","f">>,
    <<"d","2",".","p","d","f">>,
    <<"d","3",".","p","d","f">>
}

\* The queues of at most MaxQueue distinct PDF files of the input directory.
Queues ==
    LET names(n) == {q \in [1..n -> PdfNames] :
                        \A x, y \in 1..n : x # y => q[x] # q[y]}
    IN  UNION {{[k \in 1..n |-> <<InputDir, q[k]>>] : q \in names(n)} : n \in 0..MaxQueue}

Args == [skip_md : BOOLEAN, skip_epub : BOOLEAN, output_path : {None, OutDir},
         batch_multiplier : {DefaultBatchMultiplier},
         max_pages : {None}, start_page : {None}, langs : {None}]

\* What the two stages and the file system do for one job.
Envs == [md_exists : BOOLEAN, exists_raises : BOOLEAN,
         pdf2md_raises : BOOLEAN, mark2epub_raises : BOOLEAN]

----------------------------------------------------------------------------
(* One iteration of main's loop *)

\* if args.output_path: ... else: ...
MarkdownDir(a, pdf_path) ==
    IF a.output_path # None
    THEN PathJoin(<<a.output_path>>, Stem(PathName(pdf_path)))
    ELSE DefaultOutputDir(pdf_path)

OutputPath(a, pdf_path) ==
    IF a.output_path # None
    THEN <<a.output_path>>
    ELSE Parent(DefaultOutputDir(pdf_path))

\* Mutant of MetadataMissing: a missing record is no longer fatal.
MetadataMissing_Tolerated(pdf_metadata) == FALSE

\* if not pdf_metadata: raise
MetadataMissing(pdf_metadata) == IsFalsy(pdf_metadata)

\* Mutant of SkipsJob: the missing directory is reported but the job goes on.
SkipsJob_Never(a, md_exists) == FALSE

\* Mutant of SkipsJob: --skip-md skips the job whatever the directory.
SkipsJob_Always(a, md_exists) == a.skip_md

\* if args.skip_md: if not markdown_dir.exists(): continue
SkipsJob(a, md_exists) == a.skip_md /\ ~md_exists

\* Mutant of RunsPdf2md: the conversion runs whatever --skip-md says.
RunsPdf2md_Always(a) == TRUE

\* if not args.skip_md: pdf2md.convert_pdf(...)
RunsPdf2md(a) == ~a.skip_md

\* Mutant of RunsEpub: --skip-epub is wired to the EPUB stage.
RunsEpub_UnlessSkipped(a) == ~a.skip_epub

\* mark2epub.convert_to_epub(...) stands under no condition.
RunsEpub(a) == TRUE

RequiredFields == {"Title", "Authors", "Language Code", "Publisher",
                   "PublicationDate", "EIsbn"}

\* Building epub_metadata raises KeyError for a field the record lacks and
\* AttributeError for a Language Code of None.
AssemblyRaises(pdf_metadata) ==
    \/ ~(RequiredFields \subseteq Keys(pdf_metadata))
    \/ pdf_metadata["Language Code"] = None

\* Mutant of Language: the Language Code is passed on as it stands.
Language_AsIs(pdf_metadata) == pdf_metadata["Language Code"]

\* 'language': pdf_metadata['Language Code'].lower()
Language(pdf_metadata) == Lower(pdf_metadata["Language Code"])

Rights == <<"A","l","l"," ","r","i","g","h","t","s"," ",
            "r","e","s","e","r","v","e","d">>

EpubMetadata(pdf_metadata) ==
    [title            |-> pdf_metadata["Title"],
     authors          |-> pdf_metadata["Authors"],
     language         |-> Language(pdf_metadata),
     publisher        |-> pdf_metadata["Publisher"],
     publication_date |-> pdf_metadata["PublicationDate"],
     identifier       |-> pdf_metadata["EIsbn"],
     rights           |-> Rights]

ConvertPdfCall(k, a, pdf_path) ==
    [fn |-> "pdf2md.convert_pdf", job |-> k,
     argv |-> <<PathStr(pdf_path), MarkdownDir(a, pdf_path), a.batch_multiplier,
                a.max_pages, a.start_page, a.langs>>]

ConvertToEpubCall(k, a, pdf_path, pdf_metadata) ==
    [fn |-> "mark2epub.convert_to_epub", job |-> k,
     argv |-> <<MarkdownDir(a, pdf_path), OutputPath(a, pdf_path),
                EpubMetadata(pdf_metadata)>>]

\* Mutant of StageCalls: the EPUB stage is invoked first.
StageCalls_EpubFirst(md_calls, epub_calls) == epub_calls \o md_calls

\* The order in which one job's stage invocations are made.
StageCalls(md_calls, epub_calls) == md_calls \o epub_calls

\* The try block: the stage invocations it makes, whether it ended in the
\* `continue` of the missing markdown directory, and where it raised
\* (markdown_dir.exists() raises for a directory it may not look into).
TryBody(k, a, pdf_path, pdf_metadata, env) ==
    LET md_calls == IF RunsPdf2md(a) THEN <<ConvertPdfCall(k, a, pdf_path)>> ELSE << >>
    IN  IF a.skip_md /\ env.exists_raises
        THEN [calls |-> << >>, skipped |-> FALSE, exc |-> "exists"]
        ELSE IF SkipsJob(a, env.md_exists)
        THEN [calls |-> << >>, skipped |-> TRUE, exc |-> "none"]
        ELSE IF RunsPdf2md(a) /\ env.pdf2md_raises
        THEN [calls |-> md_calls, skipped |-> FALSE, exc |-> "pdf2md"]
        ELSE IF ~RunsEpub(a)
        THEN [calls |-> md_calls, skipped |-> FALSE, exc |-> "none"]
        ELSE IF AssemblyRaises(pdf_metadata)
        THEN [calls |-> md_calls, skipped |-> FALSE, exc |-> "metadata"]
        ELSE [calls |-> StageCalls(md_calls,
                            <<ConvertToEpubCall(k, a, pdf_path, pdf_metadata)>>),
              skipped |-> FALSE,
              exc |-> IF env.mark2epub_raises THEN "mark2epub" ELSE "none"]

\* Mutant of CaughtAtJobBoundary: the try block starts after convert_pdf.
CaughtAtJobBoundary_NotPdf2md(exc) == exc \in {"exists", "metadata", "mark2epub"}

\* except Exception as e: ...; continue  -- the handler of the try block,
\* which holds the directory check, both stages and the metadata assembly.
CaughtAtJobBoundary(exc) == exc \in {"exists", "pdf2md", "metadata", "mark2epub"}

\* The k-th iteration: its record and the stage invocations it makes.
JobStep(k, a, pdf_path, md, env) ==
    LET pdf_id == Stem(PathName(pdf_path))
        pdf_metadata == DictGet(md, pdf_id)
        body == TryBody(k, a, pdf_path, pdf_metadata, env)
    IN  IF MetadataMissing(pdf_metadata)
        THEN [calls |-> << >>,
              job |-> [pdf_id |-> pdf_id, found |-> FALSE, md_dir |-> "n/a",
                       exc |-> "lookup", outcome |-> "raised"]]
        ELSE [calls |-> body.calls,
              job |-> [pdf_id |-> pdf_id, found |-> TRUE,
                       md_dir |-> IF ~a.skip_md THEN "n/a"
                                  ELSE IF env.exists_raises THEN "error"
                                  ELSE IF env.md_exists THEN "exists" ELSE "missing",
                       exc |-> body.exc,
                       outcome |-> IF body.skipped THEN "skipped"
                                   ELSE IF body.exc = "none" THEN "done"
                                   ELSE IF CaughtAtJobBoundary(body.exc) THEN "failed"
                                   ELSE "raised"]]

\* The same command line with --skip-epub the other way.
FlipSkipEpub(a) == [a EXCEPT !.skip_epub = ~a.skip_epub]

----------------------------------------------------------------------------

Init ==
    /\ pc = "open"
    /\ header \in Headers
    /\ rows = << >>
    /\ metadata = EmptyDict
    /\ loadError = FALSE
    /\ args \in Args
    /\ queue \in Queues
    /\ jobs = << >>
    /\ calls = << >>
    /\ callsFlip = << >>

\* open(csv_path, 'r', encoding='utf-8-sig') succeeds.
OpenCsv ==
    /\ pc = "open"
    /\ pc' = "rows"
    /\ UNCHANGED <<header, rows, metadata, loadError, args, queue, jobs, calls, callsFlip>>

\* open raises (no such file, no permission): the except clause runs and
\* the loader returns.
OpenFails ==
    /\ pc = "open"
    /\ pc' = "main"
    /\ loadError' = TRUE
    /\ UNCHANGED <<header, rows, metadata, args, queue, jobs, calls, callsFlip>>

\* for row in reader: one more line of the file is consumed.
ReadRow ==
    /\ pc = "rows"
    /\ Len(rows) < MaxRows
    /\ \E cells \in RowPool :
        /\ rows' = Append(rows, cells)
        /\ metadata' = LoadLine(metadata, header, cells)
    /\ UNCHANGED <<pc, header, loadError, args, queue, jobs, calls, callsFlip>>

\* Reading on raises (UnicodeDecodeError in the next chunk, csv.Error): the
\* except clause runs and the loader returns what it has built.
ReadFails ==
    /\ pc = "rows"
    /\ pc' = "main"
    /\ loadError' = TRUE
    /\ UNCHANGED <<header, rows, metadata, args, queue, jobs, calls, callsFlip>>

\* The reader is exhausted: the loader returns.
ReadEnd ==
    /\ pc = "rows"
    /\ pc' = "main"
    /\ UNCHANGED <<header, rows, metadata, loadError, args, queue, jobs, calls, callsFlip>>

\* for pdf_path in queue: one iteration.
ProcessJob ==
    /\ pc = "main"
    /\ Len(jobs) < Len(queue)
    /\ \E env \in Envs :
        LET k == Len(jobs) + 1
            r == JobStep(k, args, queue[k], metadata, env)
            f == JobStep(k, FlipSkipEpub(args), queue[k], metadata, env)
        IN  /\ jobs' = Append(jobs, r.job)
            /\ calls' = calls \o r.calls
            /\ callsFlip' = callsFlip \o f.calls
            /\ pc' = IF r.job.outcome = "raised" THEN "raised" ELSE "main"
    /\ UNCHANGED <<header, rows, metadata, loadError, args, queue>>

\* The queue is exhausted: main returns.
LoopExit ==
    /\ pc = "main"
    /\ Len(jobs) = Len(queue)
    /\ pc' = "completed"
    /\ UNCHANGED <<header, rows, metadata, loadError, args, queue, jobs, calls, callsFlip>>

Next ==
    \/ OpenCsv
    \/ OpenFails
    \/ ReadRow
    \/ ReadFails
    \/ ReadEnd
    \/ ProcessJob
    \/ LoopExit

Spec == Init /\ [][Next]_vars

----------------------------------------------------------------------------
(* The properties checked *)

Loaded == pc \in {"main", "raised", "completed"}

PdfId(k) == Stem(PathName(queue[k]))

HasRecord(k) == PdfId(k) \in Keys(metadata)

AllHaveMetadata == \A k \in 1..Len(queue) : HasRecord(k)

IsPdf2md(c) == c.fn = "pdf2md.convert_pdf"
IsEpub(c) == c.fn = "mark2epub.convert_to_epub"

\* The positions in calls of job k's invocations.
CallsOf(k) == {x \in 1..Len(calls) : calls[x].job = k}

Completed(k) == jobs[k].outcome \in {"done", "failed", "skipped"}

\* C1: in every state, a job whose document ID has no record in the metadata
\* mapping has raised and ended the run at that job, whatever --skip-md: it
\* is the last job begun, every earlier job ran to completion, and no stage
\* was invoked for it or for a later job.
C1_MissingMetadataIsFatal ==
    \A k \in 1..Len(jobs) :
        ~HasRecord(k) =>
            /\ pc = "raised"
            /\ k = Len(jobs)
            /\ jobs[k].outcome = "raised"
            /\ \A j \in 1..(k-1) : Completed(j)
            /\ \A x \in 1..Len(calls) : calls[x].job < k

C1_Witness ==
    /\ pc = "raised"
    /\ args.skip_md
    /\ Len(jobs) = 2
    /\ ~HasRecord(2)
    /\ jobs[1].outcome = "done"
    /\ CallsOf(1) # {}

\* C2: when every PDF of the queue has a metadata record, no job's exception
\* ends the run: each job begun is completed (done, failed or skipped), the
\* driver can always take the next job, and the run completes only after an
\* iteration for every job of the queue.
C2_FailuresAreCaughtPerJob ==
    (Loaded /\ AllHaveMetadata) =>
        /\ pc # "raised"
        /\ \A k \in 1..Len(jobs) : Completed(k)
        /\ (pc = "main" /\ Len(jobs) < Len(queue)) => ENABLED ProcessJob
        /\ pc = "completed" => Len(jobs) = Len(queue)

C2_Witness ==
    /\ pc = "completed"
    /\ AllHaveMetadata
    /\ Len(jobs) = 2
    /\ jobs[1].exc = "pdf2md"
    /\ jobs[2].exc = "mark2epub"

\* C3: a job whose markdown directory is missing under --skip-md is skipped
\* with no stage invoked for it, the run is not ended by it, and the next
\* job of the queue, if any, is still taken.
C3_MissingMarkdownDirSkipsJob ==
    \A k \in 1..Len(jobs) :
        jobs[k].md_dir = "missing" =>
            /\ jobs[k].outcome = "skipped"
            /\ CallsOf(k) = {}
            /\ k = Len(jobs) => pc \in {"main", "completed"}
            /\ (k = Len(jobs) /\ k < Len(queue)) => (pc = "main" /\ ENABLED ProcessJob)

C3_Witness ==
    /\ Len(jobs) = 2
    /\ jobs[1].md_dir = "missing"
    /\ jobs[2].outcome = "done"
    /\ CallsOf(2) # {}

\* C4: a job whose markdown directory exists under --skip-md never has
\* pdf2md.convert_pdf invoked; the only invocation made for it is one of
\* mark2epub.convert_to_epub on that markdown directory (made unless the
\* assembly of the metadata bundle raised).
C4_SkipMdNeverConvertsPdf ==
    \A k \in 1..Len(jobs) :
        jobs[k].md_dir = "exists" =>
            /\ \A x \in CallsOf(k) :
                /\ IsEpub(calls[x])
                /\ calls[x].argv[1] = MarkdownDir(args, queue[k])
            /\ Cardinality(CallsOf(k)) = IF jobs[k].exc = "metadata" THEN 0 ELSE 1

C4_Witness ==
    \E k \in 1..Len(jobs) :
        /\ jobs[k].md_dir = "exists"
        /\ jobs[k].outcome = "done"
        /\ \E x \in CallsOf(k) : IsEpub(calls[x])

\* C5: run without flags on a queue whose PDFs all have metadata, the stage
\* invocations are in queue order with no overlap between jobs, each names
\* the PDF of its job, a job's PDF->Markdown invocation precedes its
\* Markdown->EPUB invocation, and a job that succeeds has made both.
C5_SequentialInQueueOrder ==
    (Loaded /\ AllHaveMetadata /\ ~args.skip_md /\ ~args.skip_epub) =>
        /\ \A x, y \in 1..Len(calls) :
            x < y =>
                /\ calls[x].job <= calls[y].job
                /\ calls[x].job = calls[y].job =>
                        (IsPdf2md(calls[x]) /\ IsEpub(calls[y]))
        /\ \A x \in 1..Len(calls) :
            /\ calls[x].job \in 1..Len(jobs)
            /\ IsPdf2md(calls[x]) => calls[x].argv[1] = PathStr(queue[calls[x].job])
            /\ IsEpub(calls[x]) =>
                    \E w \in 1..(x-1) :
                        IsPdf2md(calls[w]) /\ calls[w].job = calls[x].job
        /\ \A k \in 1..Len(jobs) :
            jobs[k].outcome = "done" => Cardinality(CallsOf(k)) = 2

C5_Witness ==
    /\ pc = "completed"
    /\ AllHaveMetadata
    /\ ~args.skip_md /\ ~args.skip_epub
    /\ Len(jobs) = 2
    /\ Len(calls) = 4
    /\ IsPdf2md(calls[1]) /\ IsEpub(calls[2]) /\ calls[2].job = 1
    /\ IsPdf2md(calls[3]) /\ IsEpub(calls[4]) /\ calls[4].job = 2

\* C6: a load that ended in the loader's except clause, at whatever point of
\* the read, has returned the empty mapping.
C6_FailedLoadReturnsEmpty ==
    (Loaded /\ loadError) => Keys(metadata) = {}

\* The rows DictReader yielded of the lines consumed, as dicts.
YieldedRows == {DictRow(header, rows[k]) : k \in {j \in 1..Len(rows) : IsYielded(rows[j])}}

RowsWithId == {r \in YieldedRows : "Document ID" \in DOMAIN r}

IsUpper(c) == \E k \in 1..Len(UpperAlpha) : UpperAlpha[k] = c

\* C8: every bundle passed to mark2epub.convert_to_epub has the rights
\* "All rights reserved", a language that is the record's Language Code with
\* every upper-case letter replaced by its lower-case letter, and the
\* Title, Authors, Publisher, PublicationDate and EIsbn of the record of the
\* job's document ID.
C8_EpubMetadataBundle ==
    \A x \in 1..Len(calls) :
        IsEpub(calls[x]) =>
            LET rec == metadata[PdfId(calls[x].job)]
                m == calls[x].argv[3]
                code == rec["Language Code"]
            IN  /\ m.rights = <<"A","l","l"," ","r","i","g","h","t","s"," ",
                                "r","e","s","e","r","v","e","d">>
                /\ Len(m.language) = Len(code)
                /\ \A i \in 1..Len(code) :
                    /\ ~IsUpper(m.language[i])
                    /\ m.language[i] = LowerChar(code[i])
                /\ m.title = rec["Title"]
                /\ m.authors = rec["Authors"]
                /\ m.publisher = rec["Publisher"]
                /\ m.publication_date = rec["PublicationDate"]
                /\ m.identifier = rec["EIsbn"]

C8_Witness ==
    \E x \in 1..Len(calls) :
        /\ IsEpub(calls[x])
        /\ metadata[PdfId(calls[x].job)]["Language Code"] = <<"E","N">>
        /\ calls[x].argv[3].language = <<"e","n">>

====
